---- MODULE Spec2Model ----
(***************************************************************************)
(* Model of src/app.py: the REMBG background-removal HTTP service.         *)
(*                                                                         *)
(* State: the platform (total memory, whether psutil's memory query        *)
(* works), the RembgAPIService object (sessions, the progress of           *)
(* _initialize_models), and the one request being handled (its inputs, its *)
(* position in the handler, its response).                                 *)
(*                                                                         *)
(* Units.  psutil reports the total memory in bytes; the model keeps it in *)
(* MiB (totalMiB * 2^20 bytes), so that 16 GiB = 16384.  File sizes are in *)
(* bytes.  total_gb, which the code rounds to two decimals, is kept in     *)
(* hundredths of a GiB.                                                    *)
(*                                                                         *)
(* The string literal opened at src/app.py:474 (demo_page) has no closing  *)
(* quotes in the file; the model reads the handlers that follow it         *)
(* (lines 509-723) as the code they are written as.                        *)
(***************************************************************************)
EXTENDS Integers, Sequences, FiniteSets, TLC

\* ---------------------------------------------------------------- bounds

\* Files offered in one POST /batch: one more than the Pro limit.
MaxBatchFiles == 11
\* new_session calls that may raise during one initialization.
MaxLoadFailures == 1
\* Items of one batch whose processing may raise for a reason of their own
\* (an undecodable image, a failure inside remove()).
MaxBadFiles == 1

\* ------------------------------------------------------- program constants

MiB == 1048576
MiBPerGiB == 1024
ProThresholdGb == 16
HobbyThresholdGb == 4
ProMaxPixels == 4000000
HobbyMaxPixels == 1500000
DefaultMaxSize == 2000
ProMaxFileSizeMb == 20
HobbyMaxFileSizeMb == 5
ProMaxBatchSize == 10
HobbyMaxBatchSize == 3
ProRecommendedMaxSize == 2000
HobbyRecommendedMaxSize == 1500
\* What GET / advertises under "limits" for the Hobby plan.
AdvertisedHobbyMaxImageMb == 2
AdvertisedHobbyMaxResolution == 1500
AdvertisedHobbyBatch == 3
AdvertisedProBatch == 10

\* ------------------------------------------------------------ input sets

NoValue == "<absent>"
NoFile == [filename |-> NoValue, size |-> 0]
Corrupt == <<0, 0>>

\* Total memory of the platform, in MiB: 4 GiB, 8 GiB, 16 GiB, 16 GiB + 2 MiB,
\* 32 GiB.
MemTotals == {4096, 8192, 16384, 16386, 32768}
\* Upload sizes in bytes: 3 MiB, 5 MiB, 5 MiB + 1, 20 MiB, 20 MiB + 1.
Sizes == {3 * MiB, 5 * MiB, 5 * MiB + 1, 20 * MiB, 20 * MiB + 1}
Filenames == {"", "cat.jpg"}
\* Values of the 'model' form field.  "human" is the name GET / suggests under
\* usage.model_selection; it is not a model.
ModelForms == {NoValue, "silueta", "u2net_human_seg", "isnet-general-use", "human"}
\* Values of the 'max_size' form field.
MaxSizeForms == {NoValue, "abc", "1000"}
\* Decoded image sizes (width, height).
ImageDims == {<<800, 600>>, <<1900, 700>>, <<2400, 600>>, <<3000, 2000>>}
Images == ImageDims \cup {Corrupt}

\* ----------------------------------------------------------------- state

VARIABLES
  totalMiB,         \* psutil.virtual_memory().total, in MiB
  memFails,         \* psutil.virtual_memory() raises on this platform
  initPc,           \* "new", "essential", "optional", "serving"
  pending,          \* models the current loading loop has still to attempt
  memory_info,      \* _initialize_models' local memory_info
  sessions,         \* RembgAPIService.sessions: model name -> session
  attempted,        \* model names passed to new_session, in order
  newSessionCalls,  \* calls of new_session so far
  loadFailures,     \* calls of new_session that raised
  loadRaised,       \* the model names for which new_session raised
  req,              \* the request being handled
  resp,             \* its response
  responses,        \* responses produced for it
  results,          \* batch_process' local results
  lastCall,         \* the latest call of process_image
  removeCalls       \* calls of remove() made for the request

envVars == <<totalMiB, memFails>>
svcVars == <<initPc, pending, memory_info, sessions, attempted, newSessionCalls,
             loadFailures, loadRaised>>
reqVars == <<req, resp, responses, results, lastCall, removeCalls>>
vars == <<totalMiB, memFails, initPc, pending, memory_info, sessions, attempted,
          newSessionCalls, loadFailures, loadRaised, req, resp, responses, results,
          lastCall, removeCalls>>

\* ------------------------------------------------------- pure functions

Max(a, b) == IF a >= b THEN a ELSE b

Abs(a) == IF a >= 0 THEN a ELSE 0 - a

\* round(a / b) to the nearest integer, ties to even, as Python's round does.
RoundHalfEven(a, b) ==
  LET q == a \div b
      r == a % b
  IN  IF 2 * r < b THEN q
      ELSE IF 2 * r > b THEN q + 1
      ELSE IF q % 2 = 0 THEN q ELSE q + 1

\* total / (1024**3) > n, for a total of t MiB.
MemoryGbAbove(t, n) == t > n * MiBPerGiB

\* round(memory.total / (1024**3), 2), in hundredths of a GiB.
TotalGbRounded(t) == RoundHalfEven(t * 100, MiBPerGiB)

\* _detect_railway_plan
detect_railway_plan ==
  IF memFails THEN "Railway Pro Plan"
  ELSE IF MemoryGbAbove(totalMiB, ProThresholdGb) THEN "Railway Pro Plan"
  ELSE IF MemoryGbAbove(totalMiB, HobbyThresholdGb) THEN "Railway Hobby Plan"
  ELSE "Railway Trial Plan"

\* get_memory_info: the dict it returns.  has_error stands for the dict
\* {'error': ...}, which has no 'total_gb' and no 'railway_plan'.
get_memory_info ==
  IF memFails
  THEN [has_error |-> TRUE, total_gb |-> 0, railway_plan |-> NoValue]
  ELSE [has_error |-> FALSE, total_gb |-> TotalGbRounded(totalMiB),
        railway_plan |-> detect_railway_plan]

\* memory_info.get('total_gb', 0) > 16, total_gb in hundredths.
TotalGbAbove(mi, n) ==
  (IF mi.has_error THEN 0 ELSE mi.total_gb) > n * 100

\* memory_info.get('railway_plan', default)
PlanOrDefault(mi, default) ==
  IF mi.has_error THEN default ELSE mi.railway_plan

essential_models == <<"u2net", "silueta">>

optional_models(mi) ==
  IF TotalGbAbove(mi, ProThresholdGb)
  THEN <<"u2net_human_seg", "isnet-general-use">>
  ELSE <<"u2net_human_seg">>

model_descriptions ==
  [m \in {"u2net", "silueta", "u2net_human_seg", "isnet-general-use"} |->
     CASE m = "u2net" -> "Standard-Modell (beste Balance)"
       [] m = "silueta" -> "Kompakt-Modell (schneller, 43MB)"
       [] m = "u2net_human_seg" -> "Speziell fuer Menschen"
       [] m = "isnet-general-use" -> "Verbessertes Modell (neueste Version)"]

\* The session object new_session(name) returns.
Session(name) == [model |-> name]

\* d[k] = v for a dict d held as a function.
DictSet(d, k, v) == [x \in DOMAIN d \cup {k} |-> IF x = k THEN v ELSE d[x]]

EmptyDict == [x \in {} |-> NoValue]

\* ------------------------------------------------------- process_image

\* floor(a * b / c) without forming a * b.
MulDiv(a, b, c) == a * (b \div c) + (a * (b % c)) \div c

RECURSIVE IsqrtBetween(_, _, _)
\* The largest k in lo..hi with k * k <= n (lo * lo <= n is given).
IsqrtBetween(n, lo, hi) ==
  IF lo >= hi THEN lo
  ELSE LET mid == (lo + hi + 1) \div 2
       IN  IF mid * mid <= n THEN IsqrtBetween(n, mid, hi)
           ELSE IsqrtBetween(n, lo, mid - 1)

Isqrt(n) == IsqrtBetween(n, 0, IF n < 46340 THEN n ELSE 46340)

\* int(side * (max_pixels / (side * other)) ** 0.5)
ScaledSide(side, other, max_pixels) == Isqrt(MulDiv(side, max_pixels, other))

\* The pixel budget of process_image.
MaxPixels ==
  IF MemoryGbAbove(totalMiB, ProThresholdGb) THEN ProMaxPixels ELSE HobbyMaxPixels

\* PIL's round_aspect for the short side n of a thumbnail whose long side is
\* m, of a w x h image with w > h: of floor and ceil of m * h / w the one whose
\* ratio m / n is nearer to w / h, the floor on a tie, and at least 1.
RoundAspectShort(w, h, m) ==
  LET lo == (m * h) \div w
      hi == IF (m * h) % w = 0 THEN lo ELSE lo + 1
      klo == Abs(w * lo - m * h) * hi
      khi == Abs(w * hi - m * h) * lo
      pick == IF lo = 0 THEN lo ELSE IF khi < klo THEN hi ELSE lo
  IN  Max(pick, 1)

\* The same for the side n that follows the aspect ratio when h >= w: the one
\* whose ratio n / m is nearer to w / h.
RoundAspectLong(w, h, m) ==
  LET lo == (m * w) \div h
      hi == IF (m * w) % h = 0 THEN lo ELSE lo + 1
      pick == IF Abs(w * m - hi * h) < Abs(w * m - lo * h) THEN hi ELSE lo
  IN  Max(pick, 1)

\* image.thumbnail((m, m)) of a w x h image
Thumbnail(w, h, m) ==
  IF m >= w /\ m >= h THEN <<w, h>>
  ELSE IF h >= w THEN <<RoundAspectLong(w, h, m), m>>
  ELSE <<m, RoundAspectShort(w, h, m)>>

\* The size of the image process_image hands to remove().
Resized(w, h, max_size) ==
  IF w * h > MaxPixels
  THEN <<ScaledSide(w, h, MaxPixels), ScaledSide(h, w, MaxPixels)>>
  ELSE IF Max(w, h) > max_size THEN Thumbnail(w, h, max_size)
  ELSE <<w, h>>

\* The model name process_image goes on with.
SelectModel(model_name) ==
  IF model_name \notin DOMAIN sessions THEN "u2net" ELSE model_name

NoSession == [model |-> NoValue]

\* A process_image that loads a model it misses instead of falling back.
LazyLoadSessions(model_name) ==
  IF model_name \in DOMAIN sessions THEN sessions
  ELSE DictSet(sessions, model_name, Session(model_name))

\* self.sessions after a call of process_image, which only reads it.
SessionsAfter(model_name) == sessions

\* What one call of process_image did: whether it raised, and if not what
\* it returned; what it passed to remove().
Raised(error, base) == [base EXCEPT !.raised = TRUE, !.error = error]

process_image(file, image, model_name, max_size, removeOK) ==
  LET call == [raised |-> FALSE, error |-> NoValue, file |-> file,
               requested |-> model_name, max_size |-> max_size,
               image |-> image, max_pixels |-> 0, size |-> Corrupt,
               model_used |-> NoValue, session |-> NoSession, removed |-> 0]
  IN  IF memFails THEN Raised("psutil.Error", call)
      ELSE IF image = Corrupt THEN Raised("UnidentifiedImageError", call)
      ELSE
        LET sized == [call EXCEPT !.max_pixels = MaxPixels,
                                  !.size = Resized(image[1], image[2], max_size)]
            name == SelectModel(model_name)
        IN  IF name \notin DOMAIN sessions THEN Raised("KeyError", sized)
            ELSE
              LET passed == [sized EXCEPT !.session = sessions[name], !.removed = 1]
              IN  IF ~removeOK THEN Raised("remove failed", passed)
                  ELSE [passed EXCEPT !.model_used = name]

NoCall == [raised |-> FALSE, error |-> NoValue, file |-> NoFile,
           requested |-> NoValue, max_size |-> 0, image |-> Corrupt,
           max_pixels |-> 0, size |-> Corrupt, model_used |-> NoValue,
           session |-> NoSession, removed |-> 0]

\* --------------------------------------------------------- initialization

IdleReq == [ep |-> "none", pc |-> "idle", file |-> NoFile, pos |-> 0,
            model |-> NoValue, max_size |-> NoValue, nfiles |-> 0,
            i |-> 0, bad |-> 0, log |-> <<>>, calls |-> <<>>]

NoResp == [status |-> 0]

Init ==
  /\ totalMiB \in MemTotals
  /\ memFails \in BOOLEAN
  /\ initPc = "new"
  /\ pending = <<>>
  /\ memory_info = [has_error |-> TRUE, total_gb |-> 0, railway_plan |-> NoValue]
  /\ sessions = EmptyDict
  /\ attempted = <<>>
  /\ newSessionCalls = 0
  /\ loadFailures = 0
  /\ loadRaised = {}
  /\ req = IdleReq
  /\ resp = NoResp
  /\ responses = 0
  /\ results = <<>>
  /\ lastCall = NoCall
  /\ removeCalls = 0

\* __init__ up to the first loop of _initialize_models.
StartInit ==
  /\ initPc = "new"
  /\ initPc' = "essential"
  /\ sessions' = EmptyDict
  /\ memory_info' = get_memory_info
  /\ pending' = essential_models
  /\ UNCHANGED <<attempted, newSessionCalls, loadFailures, loadRaised>>
  /\ UNCHANGED envVars
  /\ UNCHANGED reqVars

\* The loop body without its try/except around new_session: a failing load
\* ends the loop.
LoadModelAborting(ok) ==
  /\ pending # <<>>
  /\ ok \/ loadFailures < MaxLoadFailures
  /\ LET model_name == Head(pending)
     IN  /\ attempted' = Append(attempted, model_name)
         /\ newSessionCalls' = newSessionCalls + 1
         /\ sessions' = IF ok THEN DictSet(sessions, model_name, Session(model_name))
                        ELSE sessions
         /\ loadFailures' = IF ok THEN loadFailures ELSE loadFailures + 1
         /\ loadRaised' = IF ok THEN loadRaised ELSE loadRaised \cup {model_name}
  /\ pending' = IF ok THEN Tail(pending) ELSE <<>>
  /\ UNCHANGED <<initPc, memory_info>>
  /\ UNCHANGED envVars
  /\ UNCHANGED reqVars

\* One iteration of a loading loop: new_session(model_name) inside try/except.
LoadModel(ok) ==
  /\ pending # <<>>
  /\ ok \/ loadFailures < MaxLoadFailures
  /\ LET model_name == Head(pending)
     IN  /\ attempted' = Append(attempted, model_name)
         /\ newSessionCalls' = newSessionCalls + 1
         /\ sessions' = IF ok THEN DictSet(sessions, model_name, Session(model_name))
                        ELSE sessions
         /\ loadFailures' = IF ok THEN loadFailures ELSE loadFailures + 1
         /\ loadRaised' = IF ok THEN loadRaised ELSE loadRaised \cup {model_name}
  /\ pending' = Tail(pending)
  /\ UNCHANGED <<initPc, memory_info>>
  /\ UNCHANGED envVars
  /\ UNCHANGED reqVars

LoadEssential ==
  /\ initPc = "essential"
  /\ \E ok \in BOOLEAN : LoadModel(ok)

\* Between the loops: the list of optional models.
PlanOptional ==
  /\ initPc = "essential"
  /\ pending = <<>>
  /\ initPc' = "optional"
  /\ pending' = optional_models(memory_info)
  /\ UNCHANGED <<memory_info, sessions, attempted, newSessionCalls, loadFailures,
                  loadRaised>>
  /\ UNCHANGED envVars
  /\ UNCHANGED reqVars

LoadOptional ==
  /\ initPc = "optional"
  /\ \E ok \in BOOLEAN : LoadModel(ok)

\* The end of _initialize_models; the module goes on to serve requests.
FinishInit ==
  /\ initPc = "optional"
  /\ pending = <<>>
  /\ initPc' = "serving"
  /\ UNCHANGED <<pending, memory_info, sessions, attempted, newSessionCalls,
                  loadFailures, loadRaised>>
  /\ UNCHANGED envVars
  /\ UNCHANGED reqVars

\* ------------------------------------------------------------- requests

\* A handler returns: the one response of the request.
Respond(r) ==
  /\ resp' = r
  /\ responses' = responses + 1

Logged(r, events) == [r EXCEPT !.log = r.log \o events]

\* list(rembg_service.sessions.keys())
LoadedModels == DOMAIN sessions

\* GET /
health_check ==
  LET mi == get_memory_info
  IN  [status |-> 200,
       powered_by |-> PlanOrDefault(mi, "Railway Pro Plan"),
       available_models |-> LoadedModels,
       hobby_max_image_mb |-> AdvertisedHobbyMaxImageMb,
       hobby_max_resolution |-> AdvertisedHobbyMaxResolution,
       hobby_batch |-> AdvertisedHobbyBatch,
       pro_batch |-> AdvertisedProBatch]

\* GET /system
system_info ==
  LET mi == get_memory_info
      pro == TotalGbAbove(mi, ProThresholdGb)
  IN  [status |-> 200,
       railway_plan |-> IF mi.has_error THEN NoValue ELSE mi.railway_plan,
       loaded_models |-> LoadedModels,
       model_count |-> Cardinality(DOMAIN sessions),
       can_handle_large_images |-> pro,
       recommended_max_size |->
         IF pro THEN ProRecommendedMaxSize ELSE HobbyRecommendedMaxSize,
       batch_limit |-> IF pro THEN ProMaxBatchSize ELSE HobbyMaxBatchSize]

\* GET /models
get_available_models ==
  [status |-> 200,
   available_models |->
     [m \in DOMAIN sessions |->
        IF m \in DOMAIN model_descriptions THEN model_descriptions[m]
        ELSE "KI-Modell fuer Background-Removal"],
   default |-> "u2net",
   recommendations |->
     {"u2net", "silueta", "u2net_human_seg", "isnet-general-use"}]

\* One GET request, handled in one step.
Get(ep, r) ==
  /\ initPc = "serving"
  /\ req.pc = "idle"
  /\ req' = [IdleReq EXCEPT !.ep = ep, !.pc = "done"]
  /\ Respond(r)
  /\ UNCHANGED <<results, lastCall, removeCalls>>
  /\ UNCHANGED svcVars
  /\ UNCHANGED envVars

HealthCheck == Get("/", health_check)

SystemInfo == Get("/system", system_info)

GetAvailableModels == Get("/models", get_available_models)

\* request.form.get(name, default)
FormGet(v, default) == IF v = NoValue THEN default ELSE v

\* int(s) for the form values of 'max_size': the strings that are integer
\* literals, and their values.
IsIntLiteral(s) == s \in {"1000"}

IntOf(s) == CASE s = "1000" -> 1000

\* int(request.form.get('max_size', 2000)): whether it raises, and its value.
MaxSizeRaises(v) == v # NoValue /\ ~IsIntLiteral(v)

MaxSizeOf(v) == IF v = NoValue THEN DefaultMaxSize ELSE IntOf(v)

\* The comparison with >= for >.
FileSizeMbAtLeast(size, limit_mb) == size >= limit_mb * MiB

\* file_size_mb > max_file_size, for file_size_mb = size / (1024 * 1024)
FileSizeMbAbove(size, limit_mb) == size > limit_mb * MiB

\* max_file_size in remove_background
MaxFileSize ==
  IF MemoryGbAbove(totalMiB, ProThresholdGb) THEN ProMaxFileSizeMb
  ELSE HobbyMaxFileSizeMb

\* The batch limit taken from the rounded total_gb, as GET /system reports it.
MaxBatchSizeFromRounded ==
  IF TotalGbAbove(get_memory_info, ProThresholdGb) THEN ProMaxBatchSize
  ELSE HobbyMaxBatchSize

\* max_batch_size in batch_process
MaxBatchSize ==
  IF MemoryGbAbove(totalMiB, ProThresholdGb) THEN ProMaxBatchSize
  ELSE HobbyMaxBatchSize

\* The plan name of the 413 body and of batch_process
PlanName ==
  IF MemoryGbAbove(totalMiB, ProThresholdGb) THEN "Pro Plan" ELSE "Hobby Plan"

\* The except clause of batch_process, whose body has no 'status'.
Failed500NoStatus(error) == [status |-> 500, error |-> error, body_status |-> NoValue]

\* The except clause of remove_background
Failed500(error) == [status |-> 500, error |-> error, body_status |-> "failed"]

\* POST /remove-bg arrives with its multipart form.
RemoveBgArrive ==
  /\ initPc = "serving"
  /\ req.pc = "idle"
  /\ \E file \in {NoFile} \cup [filename : Filenames, size : Sizes],
        model \in ModelForms, max_size \in MaxSizeForms :
       req' = [IdleReq EXCEPT !.ep = "/remove-bg", !.pc = "rb_validate",
                              !.file = file, !.model = model,
                              !.max_size = max_size]
  /\ UNCHANGED <<resp, responses, results, lastCall, removeCalls>>
  /\ UNCHANGED svcVars
  /\ UNCHANGED envVars

\* remove_background, input validation and parameters.
RB_Validate ==
  /\ req.pc = "rb_validate"
  /\ IF req.file = NoFile
     THEN /\ Respond([status |-> 400, error |-> "Kein Bild gefunden"])
          /\ req' = [req EXCEPT !.pc = "done"]
     ELSE IF req.file.filename = ""
     THEN /\ Respond([status |-> 400, error |-> "Leere Datei"])
          /\ req' = [Logged(req, <<"image_present">>) EXCEPT !.pc = "done"]
     ELSE IF MaxSizeRaises(req.max_size)
     THEN /\ Respond(Failed500("ValueError"))
          /\ req' = [Logged(req, <<"image_present", "filename_ok">>)
                       EXCEPT !.pc = "done"]
     ELSE /\ req' = [Logged(req, <<"image_present", "filename_ok", "params_read">>)
                       EXCEPT !.pc = "rb_size",
                              !.model = FormGet(req.model, "u2net")]
          /\ UNCHANGED <<resp, responses>>
  /\ UNCHANGED <<results, lastCall, removeCalls>>
  /\ UNCHANGED svcVars
  /\ UNCHANGED envVars

\* The size measurement without the file.seek(0) after it.
NotRewound(r) == Logged(r, <<"size_measured">>)

\* The stream position after len(file.read()) and file.seek(0).
Rewound(r) == [Logged(r, <<"size_measured", "rewound">>) EXCEPT !.pos = 0]

\* remove_background, the file-size check.
RB_SizeCheck ==
  /\ req.pc = "rb_size"
  /\ LET measured == Rewound([req EXCEPT !.pos = req.file.size])
     IN  IF memFails
         THEN /\ Respond(Failed500("psutil.Error"))
              /\ req' = [measured EXCEPT !.pc = "done"]
         ELSE IF FileSizeMbAbove(req.file.size, MaxFileSize)
         THEN /\ Respond([status |-> 413, limit |-> MaxFileSize, plan |-> PlanName])
              /\ req' = [measured EXCEPT !.pc = "done"]
         ELSE /\ req' = [Logged(measured, <<"size_ok">>) EXCEPT !.pc = "rb_process"]
              /\ UNCHANGED <<resp, responses>>
  /\ UNCHANGED <<results, lastCall, removeCalls>>
  /\ UNCHANGED svcVars
  /\ UNCHANGED envVars

\* remove_background, process_image and the response.
RB_Process ==
  /\ req.pc = "rb_process"
  /\ \E image \in Images, removeOK \in BOOLEAN :
       LET call == process_image(req.file, image, req.model,
                                 MaxSizeOf(req.max_size), removeOK)
       IN  /\ lastCall' = call
           /\ removeCalls' = removeCalls + call.removed
           /\ sessions' = SessionsAfter(req.model)
           /\ IF call.raised
              THEN Respond(Failed500(call.error))
              ELSE Respond([status |-> 200, mimetype |-> "image/png",
                            model_used |-> call.model_used,
                            railway_plan |-> detect_railway_plan,
                            file_size |-> req.file.size])
  /\ req' = [Logged(req, <<"process_image">>) EXCEPT !.pc = "done", !.calls = <<0>>]
  /\ UNCHANGED results
  /\ UNCHANGED <<initPc, pending, memory_info, attempted, newSessionCalls,
                  loadFailures, loadRaised>>
  /\ UNCHANGED envVars

\* The files a batch item may be: within every file-size limit, or above it.
BatchFiles == [filename : {"cat.jpg"}, size : {3 * MiB, 20 * MiB + 1}]

BatchImages == {Corrupt, <<800, 600>>}

\* POST /batch arrives with nfiles files under 'images'.
BatchArrive ==
  /\ initPc = "serving"
  /\ req.pc = "idle"
  /\ \E n \in 0..MaxBatchFiles, model \in ModelForms :
       req' = [IdleReq EXCEPT !.ep = "/batch", !.pc = "b_validate",
                              !.nfiles = n, !.model = model]
  /\ UNCHANGED <<resp, responses, results, lastCall, removeCalls>>
  /\ UNCHANGED svcVars
  /\ UNCHANGED envVars

\* batch_process up to its loop.
Batch_Validate ==
  /\ req.pc = "b_validate"
  /\ IF req.nfiles = 0
     THEN /\ Respond([status |-> 400, error |-> "Keine Bilder gefunden"])
          /\ req' = [req EXCEPT !.pc = "done"]
     ELSE IF memFails
     THEN /\ Respond([status |-> 500, error |-> "psutil.Error"])
          /\ req' = [req EXCEPT !.pc = "done"]
     ELSE IF req.nfiles > MaxBatchSize
     THEN /\ Respond([status |-> 400, error |-> "Zu viele Bilder",
                      limit |-> MaxBatchSize, plan |-> PlanName])
          /\ req' = [req EXCEPT !.pc = "done"]
     ELSE /\ req' = [Logged(req, <<"accepted">>)
                       EXCEPT !.pc = "b_loop", !.i = 0,
                              !.model = FormGet(req.model, "u2net")]
          /\ UNCHANGED <<resp, responses>>
  /\ results' = <<>>
  /\ UNCHANGED <<lastCall, removeCalls>>
  /\ UNCHANGED svcVars
  /\ UNCHANGED envVars

\* The entry the loop body appends for item i.
ResultEntry(i, file, call) ==
  IF call.raised
  THEN [index |-> i, filename |-> file.filename, success |-> FALSE,
        error |-> call.error, model_used |-> NoValue, image_data |-> FALSE]
  ELSE [index |-> i, filename |-> file.filename, success |-> TRUE,
        error |-> NoValue, model_used |-> call.model_used, image_data |-> TRUE]

\* The loop body without its own try/except: a failing item ends the request
\* in the handler's outer except clause.
Batch_Item_Aborting ==
  /\ req.pc = "b_loop"
  /\ req.i < req.nfiles
  /\ \E file \in BatchFiles, image \in BatchImages, removeOK \in BOOLEAN :
       /\ (image # Corrupt /\ removeOK) \/ req.bad < MaxBadFiles
       /\ LET call == process_image(file, image, req.model, DefaultMaxSize, removeOK)
          IN  /\ lastCall' = call
              /\ removeCalls' = removeCalls + call.removed
              /\ sessions' = SessionsAfter(req.model)
              /\ IF call.raised
                 THEN /\ Respond([status |-> 500, error |-> call.error])
                      /\ results' = results
                      /\ req' = [req EXCEPT !.pc = "done",
                                            !.calls = Append(req.calls, req.i)]
                 ELSE /\ results' = Append(results, ResultEntry(req.i, file, call))
                      /\ req' = [req EXCEPT !.i = req.i + 1,
                                            !.calls = Append(req.calls, req.i)]
                      /\ UNCHANGED <<resp, responses>>
  /\ UNCHANGED <<initPc, pending, memory_info, attempted, newSessionCalls,
                  loadFailures, loadRaised>>
  /\ UNCHANGED envVars

\* batch_process, one iteration of the loop over the files.
Batch_Item ==
  /\ req.pc = "b_loop"
  /\ req.i < req.nfiles
  /\ \E file \in BatchFiles, image \in BatchImages, removeOK \in BOOLEAN :
       /\ (image # Corrupt /\ removeOK) \/ req.bad < MaxBadFiles
       /\ LET call == process_image(file, image, req.model, DefaultMaxSize, removeOK)
          IN  /\ lastCall' = call
              /\ removeCalls' = removeCalls + call.removed
              /\ sessions' = SessionsAfter(req.model)
              /\ results' = Append(results, ResultEntry(req.i, file, call))
              /\ req' = [req EXCEPT !.i = req.i + 1,
                                    !.calls = Append(req.calls, req.i),
                                    !.bad = IF image # Corrupt /\ removeOK
                                            THEN req.bad ELSE req.bad + 1]
  /\ UNCHANGED <<resp, responses>>
  /\ UNCHANGED <<initPc, pending, memory_info, attempted, newSessionCalls,
                  loadFailures, loadRaised>>
  /\ UNCHANGED envVars

\* len([r for r in results if r.get('success')]) and its complement
CountSuccess(rs) == Cardinality({k \in 1..Len(rs) : rs[k].success})

CountFailed(rs) == Cardinality({k \in 1..Len(rs) : ~rs[k].success})

\* batch_process after its loop.
Batch_Respond ==
  /\ req.pc = "b_loop"
  /\ req.i = req.nfiles
  /\ Respond([status |-> 200, total_images |-> req.nfiles,
              successful |-> CountSuccess(results),
              failed |-> CountFailed(results),
              railway_plan |-> PlanName, results |-> results])
  /\ req' = [req EXCEPT !.pc = "done"]
  /\ UNCHANGED <<results, lastCall, removeCalls>>
  /\ UNCHANGED svcVars
  /\ UNCHANGED envVars

\* The response has been sent; the server is ready for the next request.
Finish ==
  /\ req.pc = "done"
  /\ req' = IdleReq
  /\ resp' = NoResp
  /\ responses' = 0
  /\ results' = <<>>
  /\ lastCall' = NoCall
  /\ removeCalls' = 0
  /\ UNCHANGED svcVars
  /\ UNCHANGED envVars

Next ==
  \/ StartInit
  \/ LoadEssential
  \/ PlanOptional
  \/ LoadOptional
  \/ FinishInit
  \/ HealthCheck
  \/ SystemInfo
  \/ GetAvailableModels
  \/ RemoveBgArrive
  \/ RB_Validate
  \/ RB_SizeCheck
  \/ RB_Process
  \/ BatchArrive
  \/ Batch_Validate
  \/ Batch_Item
  \/ Batch_Respond
  \/ Finish

Spec == Init /\ [][Next]_vars

\* The steps of RembgAPIService(), which the module runs to its end when it
\* is imported: straight-line code whose calls return or raise.
InitStep == StartInit \/ LoadEssential \/ PlanOptional \/ LoadOptional \/ FinishInit

FairSpec == Spec /\ WF_vars(InitStep)

\* ---------------------------------------------------------------- claims

\* The plan's file-size limit in bytes and batch limit, as the claims state
\* them: 20 MB and 10 files above 16 GiB of total memory, 5 MB and 3 files
\* otherwise.
StatedFileLimit == IF totalMiB > 16 * 1024 THEN 20 * MiB ELSE 5 * MiB

StatedBatchLimit == IF totalMiB > 16 * 1024 THEN 10 ELSE 3

HasUpload == req.file # NoFile /\ req.file.filename # ""

\* C1: every POST /remove-bg gets exactly one response (none while it is
\* being handled); a 200 image/png response comes only after the checks in
\* order (image part, filename, size within the plan limit), with the stream
\* rewound to 0 after the measurement and exactly one call of the model on
\* that upload; without an image part or with an empty filename the answer
\* is 400 and the model is never called.
C1_OneResponseAfterChecks ==
  req.ep = "/remove-bg" =>
    /\ responses = (IF req.pc = "done" THEN 1 ELSE 0)
    /\ resp.status = 200 =>
         /\ req.log = <<"image_present", "filename_ok", "params_read",
                        "size_measured", "rewound", "size_ok", "process_image">>
         /\ HasUpload
         /\ req.file.size <= StatedFileLimit
         /\ req.pos = 0
         /\ removeCalls = 1
         /\ req.calls = <<0>>
         /\ lastCall.file = req.file
         /\ lastCall.removed = 1
         /\ ~lastCall.raised
         /\ resp.mimetype = "image/png"
    /\ ~HasUpload =>
         /\ removeCalls = 0
         /\ req.calls = <<>>
         /\ req.pc = "done" => resp.status = 400

C1_Witness ==
  /\ req.ep = "/remove-bg"
  /\ req.pc = "done"
  /\ resp.status = 200
  /\ req.file.size = 5 * MiB
  /\ removeCalls = 1
  /\ req.pos = 0

\* C2: in an accepted POST /batch a failing file never aborts the batch:
\* the files are processed once each in upload order, results holds one
\* entry per processed file with index 0, 1, ... in order, each entry is a
\* success with image data or a failure with an error string, and the
\* response is 200 with successful + failed = total_images = n = the number
\* of entries, whatever failed.
C2_BatchIsolatesFailures ==
  (req.ep = "/batch" /\ req.log = <<"accepted">>) =>
    /\ Len(results) = req.i
    /\ req.calls = [k \in 1..req.i |-> k - 1]
    /\ \A k \in 1..Len(results) :
         /\ results[k].index = k - 1
         /\ results[k].success =>
              results[k].image_data /\ results[k].error = NoValue
         /\ ~results[k].success =>
              results[k].error # NoValue /\ ~results[k].image_data
    /\ req.pc = "done" =>
         /\ resp.status = 200
         /\ req.i = req.nfiles
         /\ resp.results = results
         /\ Len(resp.results) = req.nfiles
         /\ resp.total_images = req.nfiles
         /\ resp.successful + resp.failed = req.nfiles
         /\ resp.successful = Cardinality({k \in 1..Len(results) : results[k].success})

C2_Witness ==
  /\ req.ep = "/batch"
  /\ req.pc = "done"
  /\ resp.status = 200
  /\ req.nfiles = 3
  /\ ~results[2].success
  /\ results[3].success
  /\ resp.failed = 1

C4_Original ==
  (req.ep = "/remove-bg" /\ req.pc = "done" /\ HasUpload) =>
    /\ req.file.size > StatedFileLimit => (resp.status = 413 /\ removeCalls = 0)
    /\ req.file.size <= StatedFileLimit => resp.status # 413

\* C4, amended: for an upload above the limit process_image and the model
\* are never called, and the answer is 413 unless the handler raised before
\* the comparison (a 'max_size' that is no integer, a failing memory query),
\* in which case it is 500; an upload within the limit is never answered
\* with 413.
C4_SizeLimitEnforced ==
  (req.ep = "/remove-bg" /\ HasUpload) =>
    /\ req.file.size > StatedFileLimit =>
         /\ removeCalls = 0
         /\ req.calls = <<>>
         /\ lastCall = NoCall
         /\ req.pc = "done" =>
              resp.status = (IF req.max_size = "abc" \/ memFails THEN 500 ELSE 413)
    /\ req.file.size <= StatedFileLimit => resp.status # 413

C4_Witness ==
  /\ req.ep = "/remove-bg"
  /\ req.pc = "done"
  /\ resp.status = 413
  /\ totalMiB = 16384
  /\ req.file.size = 5 * MiB + 1
  /\ resp.limit = 5

\* C5 as stated: a batch of more files than the plan's limit is answered
\* with 400 and none of its files is processed, an empty batch is answered
\* with 400, and a batch of 1 to limit files is not rejected for its count.
C5_Original ==
  (req.ep = "/batch" /\ req.pc = "done") =>
    /\ req.nfiles > StatedBatchLimit =>
         (resp.status = 400 /\ req.calls = <<>> /\ removeCalls = 0)
    /\ req.nfiles = 0 => resp.status = 400
    /\ (req.nfiles >= 1 /\ req.nfiles <= StatedBatchLimit) => resp.status # 400

\* C5, amended: a batch of more files than the limit has none of its files
\* processed and is answered with 400, unless the memory query raises, in
\* which case the answer is 500; an empty batch is answered with 400; a
\* batch of 1 to limit files is never answered with 400, and is accepted
\* when the memory query works.
C5_BatchLimitEnforced ==
  req.ep = "/batch" =>
    /\ req.nfiles > StatedBatchLimit =>
         /\ req.calls = <<>>
         /\ removeCalls = 0
         /\ results = <<>>
         /\ req.pc = "done" => resp.status = (IF memFails THEN 500 ELSE 400)
    /\ (req.nfiles = 0 /\ req.pc = "done") => resp.status = 400
    /\ (req.nfiles >= 1 /\ req.nfiles <= StatedBatchLimit) =>
         /\ resp.status # 400
         /\ (req.pc = "done" /\ ~memFails) => resp.status = 200

C5_Witness ==
  /\ req.ep = "/batch"
  /\ req.pc = "done"
  /\ totalMiB = 16386
  /\ req.nfiles = 11
  /\ resp.status = 400
  /\ resp.limit = 10

\* C6: whatever raises inside remove_background (a 'max_size' that is no
\* integer, the memory query, an undecodable image, a missing session, the
\* model) ends in one 500 response whose body has status 'failed'; nothing
\* is retried: the model is called at most once per file handed to
\* process_image; a raise in batch_process outside its loop ends in a 500.
C6_SingleTryExcept ==
  /\ (req.ep = "/remove-bg" /\ req.pc = "done" /\ HasUpload) =>
       LET raised == \/ req.max_size = "abc"
                     \/ memFails
                     \/ (req.file.size <= StatedFileLimit /\ lastCall.raised)
       IN  /\ responses = 1
           /\ raised => (resp.status = 500 /\ resp.body_status = "failed")
           /\ ~raised => resp.status \in {200, 413}
  /\ (req.ep = "/batch" /\ req.pc = "done" /\ req.nfiles >= 1 /\ memFails) =>
       (resp.status = 500 /\ responses = 1)
  /\ lastCall.removed <= 1
  /\ removeCalls <= Len(req.calls)

C6_Witness ==
  /\ req.ep = "/remove-bg"
  /\ req.pc = "done"
  /\ resp.status = 500
  /\ lastCall.error = "remove failed"
  /\ removeCalls = 1

\* The elements of a sequence.
Range(q) == {q[k] : k \in 1..Len(q)}

\* The tier a short plan name of a response body denotes.
DenotedPlan(short) ==
  IF short = "Pro Plan" THEN "Railway Pro Plan" ELSE "Railway Hobby Plan"

\* C7: Pro behaviour (20 MB file limit, batch limit 10, the 4,000,000 pixel
\* budget, the attempt to load isnet-general-use, can_handle_large_images)
\* applies exactly when _detect_railway_plan reports 'Railway Pro Plan', and
\* the plan name of a 413 or batch body denotes the plan that
\* _detect_railway_plan reports.
C7_TierConsistent ==
  LET pro == detect_railway_plan = "Railway Pro Plan"
  IN  /\ initPc = "serving" => ("isnet-general-use" \in Range(attempted) <=> pro)
      /\ (req.ep = "/system" /\ req.pc = "done") =>
           (resp.can_handle_large_images <=> pro)
      /\ (req.ep = "/remove-bg" /\ resp.status = 413) =>
           /\ resp.limit = 20 <=> pro
           /\ DenotedPlan(resp.plan) = detect_railway_plan
      /\ (req.ep = "/batch" /\ resp.status = 400 /\ req.nfiles > 0) =>
           /\ resp.limit = 10 <=> pro
           /\ DenotedPlan(resp.plan) = detect_railway_plan
      /\ (req.ep = "/batch" /\ resp.status = 200) =>
           DenotedPlan(resp.railway_plan) = detect_railway_plan
      /\ lastCall.max_pixels # 0 => (lastCall.max_pixels = 4000000 <=> pro)

\* C8: what GET / advertises is enforced: on a deployment that is not Pro
\* an upload of more than 2 MB is rejected, no image goes to the model with
\* a side above 1500 px and a batch of more than 3 images is rejected; on a
\* Pro deployment a batch of more than 10 images is rejected.
C8_AdvertisedLimitsEnforced ==
  LET pro == detect_railway_plan = "Railway Pro Plan"
      adv == health_check
  IN  /\ (req.ep = "/remove-bg" /\ req.pc = "done" /\ HasUpload /\ ~pro
            /\ req.file.size > adv.hobby_max_image_mb * MiB) =>
           resp.status # 200
      /\ (~pro /\ lastCall.removed = 1) =>
           Max(lastCall.size[1], lastCall.size[2]) <= adv.hobby_max_resolution
      /\ (req.ep = "/batch" /\ req.pc = "done" /\ ~pro
            /\ req.nfiles > adv.hobby_batch) =>
           (resp.status # 200 /\ req.calls = <<>>)
      /\ (req.ep = "/batch" /\ req.pc = "done" /\ pro
            /\ req.nfiles > adv.pro_batch) =>
           (resp.status # 200 /\ req.calls = <<>>)

\* C9: after initialization both base models, u2net and silueta, are keys
\* of sessions.
C9_BaseModelsLoaded ==
  initPc = "serving" => {"u2net", "silueta"} \subseteq DOMAIN sessions

\* C10: for every requested model name process_image passes the requested
\* model's session to remove() when that model is loaded and the u2net
\* session otherwise, never fails over the name, and returns a model name
\* that is a key of sessions and names the session it passed.
C10_ModelFallback ==
  lastCall.image # Corrupt =>
    /\ lastCall.error # "KeyError"
    /\ lastCall.requested \in DOMAIN sessions =>
         lastCall.session = sessions[lastCall.requested]
    /\ lastCall.requested \notin DOMAIN sessions =>
         ("u2net" \in DOMAIN sessions /\ lastCall.session = sessions["u2net"])
    /\ ~lastCall.raised =>
         /\ lastCall.model_used \in DOMAIN sessions
         /\ sessions[lastCall.model_used] = lastCall.session
         /\ (req.ep = "/remove-bg" /\ req.pc = "done") =>
              resp.model_used = lastCall.model_used

\* C11: max_size is a size limit on the processed image: the image that
\* process_image passes to remove() has its longest side at most max_size,
\* which is 2000 when the request gives none.
C11_MaxSizeLimitsLongestSide ==
  /\ lastCall.removed = 1 =>
       Max(lastCall.size[1], lastCall.size[2]) <= lastCall.max_size
  /\ (req.ep = "/remove-bg" /\ lastCall.removed = 1) =>
       lastCall.max_size = (IF req.max_size = NoValue THEN 2000 ELSE 1000)
  /\ (req.ep = "/batch" /\ lastCall.removed = 1) => lastCall.max_size = 2000

\* The models _initialize_models may attempt, in its order.
LoadOrder == <<"u2net", "silueta", "u2net_human_seg", "isnet-general-use">>

\* C12: initialization always completes and tolerates load failures: the
\* models are attempted in the order u2net, silueta, u2net_human_seg,
\* isnet-general-use, each once, a failed load not stopping the attempts
\* that follow; isnet-general-use is attempted only when the reported total
\* memory is above 16 GB; sessions is exactly the attempted models whose
\* load did not raise.
C12_InitCompletes ==
  /\ [](/\ Len(attempted) <= 4
        /\ attempted = SubSeq(LoadOrder, 1, Len(attempted))
        /\ newSessionCalls = Len(attempted)
        /\ DOMAIN sessions = Range(attempted) \ loadRaised
        /\ \A m \in DOMAIN sessions : sessions[m] = Session(m)
        /\ "isnet-general-use" \in Range(attempted) =>
             (~memory_info.has_error /\ memory_info.total_gb > 1600)
        /\ initPc = "serving" =>
             attempted = IF ~memory_info.has_error /\ memory_info.total_gb > 1600
                         THEN LoadOrder
                         ELSE SubSeq(LoadOrder, 1, 3))
  /\ <>(initPc = "serving")

C12_Witness ==
  /\ initPc = "serving"
  /\ loadRaised = {"silueta"}
  /\ attempted = LoadOrder
  /\ DOMAIN sessions = {"u2net", "u2net_human_seg", "isnet-general-use"}

\* C13: no upload larger than the plan's file-size limit (20 MB on Pro, 5 MB
\* otherwise) is ever passed to process_image, through /remove-bg or as an
\* item of /batch.
C13_NoOversizedUploadProcessed ==
  lastCall # NoCall => lastCall.file.size <= StatedFileLimit

\* C14: GET /models names only usable models: the keys of available_models
\* are the keys of sessions, each with a non-empty description, and the
\* default and every recommended model is a key of available_models.
C14_ModelsOnlyNamesUsable ==
  (req.ep = "/models" /\ req.pc = "done" /\ resp.status = 200) =>
    /\ DOMAIN resp.available_models = DOMAIN sessions
    /\ \A m \in DOMAIN resp.available_models : resp.available_models[m] # ""
    /\ resp.default \in DOMAIN resp.available_models
    /\ resp.recommendations \subseteq DOMAIN resp.available_models

====
